---- MODULE Spec2Model ----
(***************************************************************************)
(* Discussion tools of pkg/github/discussions.go: six tool handlers, each  *)
(* a closure that validates the request's parameters, acquires the client, *)
(* makes one upstream call, checks the response status and serialises the  *)
(* returned object.  An invocation is modelled as a small sequential       *)
(* process; the upstream client and its responses are the environment.     *)
(***************************************************************************)
EXTENDS Integers, Sequences, FiniteSets, TLC

(***************************************************************************)
(* Bounds of the model.                                                    *)
(***************************************************************************)
\* page and perPage values range over 0..MaxPage
MaxPage == 2
\* a list response carries at most MaxItems elements
MaxItems == 2

(***************************************************************************)
(* HTTP status codes named in the source.                                  *)
(***************************************************************************)
StatusOK == 200
StatusCreated == 201
StatusNotFound == 404
StatusUnprocessableEntity == 422

Statuses == {StatusOK, StatusCreated, StatusNotFound, StatusUnprocessableEntity}

(***************************************************************************)
(* Untyped argument values of a request (map[string]interface{}).          *)
(***************************************************************************)
Absent == [k |-> "absent", s |-> "", n |-> 0]
Str(x) == [k |-> "string", s |-> x, n |-> 0]
Num(x) == [k |-> "number", s |-> "", n |-> x]

ParamNames ==
    {"owner", "repo", "discussion_number", "title", "body", "category_id",
     "direction", "pinned", "page", "perPage"}

\* The values each parameter is drawn from: absent, the zero value, valid
\* values, and a value of the wrong primitive type.
StringValues(valid) == {Absent, Str(""), Num(7)} \cup {Str(v) : v \in valid}
NumberValues(valid) == {Absent, Num(0), Str("x")} \cup {Num(v) : v \in valid}

ArgValues(p) ==
    CASE p = "owner" -> StringValues({"owner"})
      [] p = "repo" -> StringValues({"repo"})
      [] p = "discussion_number" -> NumberValues({42})
      [] p = "title" -> StringValues({"Test Discussion"})
      [] p = "body" -> StringValues({"This is a test comment"})
      [] p = "category_id" -> StringValues({"1"})
      [] p = "direction" -> StringValues({"asc", "desc"})
      [] p = "pinned" -> StringValues({"true", "false"})
      [] p = "page" -> NumberValues(1..MaxPage)
      [] p = "perPage" -> NumberValues(1..MaxPage)

(***************************************************************************)
(* The six tools and their declared schemas.                               *)
(***************************************************************************)
Tools ==
    {"list_discussions", "get_discussion", "get_discussion_categories",
     "get_discussion_comments", "add_discussion_comment", "create_discussion"}

ReadTools ==
    {"list_discussions", "get_discussion", "get_discussion_categories",
     "get_discussion_comments"}

ListTools ==
    {"list_discussions", "get_discussion_categories", "get_discussion_comments"}

\* the schemas with body not marked required in add_discussion_comment
SchemaRequiredWithoutBody(tool) ==
    CASE tool = "list_discussions" -> {"owner", "repo"}
      [] tool = "get_discussion" -> {"owner", "repo", "discussion_number"}
      [] tool = "get_discussion_categories" -> {"owner", "repo"}
      [] tool = "get_discussion_comments" -> {"owner", "repo", "discussion_number"}
      [] tool = "add_discussion_comment" -> {"owner", "repo", "discussion_number"}
      [] tool = "create_discussion" ->
            {"owner", "repo", "title", "body", "category_id"}

\* Parameters marked mcp.Required() in the tool's schema.
SchemaRequired(tool) ==
    CASE tool = "list_discussions" -> {"owner", "repo"}
      [] tool = "get_discussion" -> {"owner", "repo", "discussion_number"}
      [] tool = "get_discussion_categories" -> {"owner", "repo"}
      [] tool = "get_discussion_comments" -> {"owner", "repo", "discussion_number"}
      [] tool = "add_discussion_comment" ->
            {"owner", "repo", "discussion_number", "body"}
      [] tool = "create_discussion" ->
            {"owner", "repo", "title", "body", "category_id"}

\* Optional parameters of the tool's schema (WithPagination adds page, perPage).
SchemaOptional(tool) ==
    CASE tool = "list_discussions" ->
            {"direction", "category_id", "pinned", "page", "perPage"}
      [] tool = "get_discussion" -> {}
      [] tool = "get_discussion_categories" -> {"page", "perPage"}
      [] tool = "get_discussion_comments" -> {"page", "perPage"}
      [] tool = "add_discussion_comment" -> {}
      [] tool = "create_discussion" -> {}

SchemaProperties(tool) == SchemaRequired(tool) \cup SchemaOptional(tool)

\* The declared properties in the order the handler reads them.
SchemaSeq(tool) ==
    CASE tool = "list_discussions" ->
            <<"owner", "repo", "direction", "category_id", "pinned", "page", "perPage">>
      [] tool = "get_discussion" -> <<"owner", "repo", "discussion_number">>
      [] tool = "get_discussion_categories" -> <<"owner", "repo", "page", "perPage">>
      [] tool = "get_discussion_comments" ->
            <<"owner", "repo", "discussion_number", "page", "perPage">>
      [] tool = "add_discussion_comment" ->
            <<"owner", "repo", "discussion_number", "body">>
      [] tool = "create_discussion" ->
            <<"owner", "repo", "title", "body", "category_id">>

NoArgs == [p \in ParamNames |-> Absent]

\* The values a request of the tool holds for a parameter: any value for a
\* declared property, none for the others.
ArgDomain(tool, p) == IF p \in SchemaProperties(tool) THEN ArgValues(p) ELSE {Absent}

\* The requests a tool can receive.
ArgsOf(tool) ==
    [owner : ArgDomain(tool, "owner"),
     repo : ArgDomain(tool, "repo"),
     discussion_number : ArgDomain(tool, "discussion_number"),
     title : ArgDomain(tool, "title"),
     body : ArgDomain(tool, "body"),
     category_id : ArgDomain(tool, "category_id"),
     direction : ArgDomain(tool, "direction"),
     pinned : ArgDomain(tool, "pinned"),
     page : ArgDomain(tool, "page"),
     perPage : ArgDomain(tool, "perPage")]

Request(t, a) == [tool |-> t, args |-> a]

(***************************************************************************)
(* Parameter helpers (package helpers used by every handler).              *)
(* A helper returns the extracted value and an error.                      *)
(***************************************************************************)
NoParamError == [nil |-> TRUE, msg |-> "", param |-> ""]
MissingParam(p) == [nil |-> FALSE, msg |-> "missing required parameter: ", param |-> p]
WrongType(p) == [nil |-> FALSE, msg |-> "parameter is not of type: ", param |-> p]

Extracted(e, str, num) == [err |-> e, s |-> str, n |-> num]

\* requiredParam[string]: present, a string, and not the zero value.
requiredParam(args, p) ==
    IF args[p].k = "absent" THEN Extracted(MissingParam(p), "", 0)
    ELSE IF args[p].k # "string" THEN Extracted(WrongType(p), "", 0)
    ELSE IF args[p].s = "" THEN Extracted(MissingParam(p), "", 0)
    ELSE Extracted(NoParamError, args[p].s, 0)

\* RequiredInt: requiredParam over a JSON number, converted to int.
RequiredInt(args, p) ==
    IF args[p].k = "absent" THEN Extracted(MissingParam(p), "", 0)
    ELSE IF args[p].k # "number" THEN Extracted(WrongType(p), "", 0)
    ELSE IF args[p].n = 0 THEN Extracted(MissingParam(p), "", 0)
    ELSE Extracted(NoParamError, "", args[p].n)

\* OptionalParam[string]: the zero value when absent, an error when mistyped.
OptionalParam(args, p) ==
    IF args[p].k = "absent" THEN Extracted(NoParamError, "", 0)
    ELSE IF args[p].k # "string" THEN Extracted(WrongType(p), "", 0)
    ELSE Extracted(NoParamError, args[p].s, 0)

\* An optional JSON number: the zero value when absent, an error when mistyped.
OptionalIntParam(args, p) ==
    IF args[p].k = "absent" THEN Extracted(NoParamError, "", 0)
    ELSE IF args[p].k # "number" THEN Extracted(WrongType(p), "", 0)
    ELSE Extracted(NoParamError, "", args[p].n)

\* OptionalPaginationParams: page, then perPage; the supplied values as given.
OptionalPaginationParams(args) ==
    LET pg == OptionalIntParam(args, "page")
        pp == OptionalIntParam(args, "perPage")
    IN  IF ~pg.err.nil THEN [err |-> pg.err, page |-> 0, perPage |-> 0]
        ELSE IF ~pp.err.nil THEN [err |-> pp.err, page |-> 0, perPage |-> 0]
        ELSE [err |-> NoParamError, page |-> pg.n, perPage |-> pp.n]

(***************************************************************************)
(* The upstream call a handler builds from the validated parameters.       *)
(***************************************************************************)
NilPtr == [nil |-> TRUE, v |-> ""]
Ptr(x) == [nil |-> FALSE, v |-> x]

\* &github.DiscussionListOptions{} and the other zero-valued option structs
NoOpts == [direction |-> "", category |-> "", pinned |-> "nil", page |-> 0, perPage |-> 0]
\* a request body with no field set
NoBody == [title |-> NilPtr, body |-> NilPtr, category_id |-> NilPtr]

Call(m, o, r, num, op, b) ==
    [method |-> m, owner |-> o, repo |-> r, number |-> num, opts |-> op, body |-> b]

NoCall == Call("", "", "", 0, NoOpts, NoBody)

\* What the parameter section of a handler yields: the first error, or the call.
Rejected(e) == [err |-> e, call |-> NoCall]
Accepted(c) == [err |-> NoParamError, call |-> c]

\* opts.Pinned set to true for every non-empty string
PinnedOptTruthy(pinnedStr) == IF pinnedStr = "" THEN "nil" ELSE "true"

\* opts.Pinned: set only for the strings "true" and "false"
PinnedOpt(pinnedStr) ==
    IF pinnedStr = "true" THEN "true"
    ELSE IF pinnedStr = "false" THEN "false"
    ELSE "nil"

\* github.ListOptions{Page: pagination.page, PerPage: pagination.perPage}
\* with page and perPage exchanged
SwappedListOptions(opts, pagination) ==
    [opts EXCEPT !.page = pagination.perPage, !.perPage = pagination.page]

\* github.ListOptions{Page: pagination.page, PerPage: pagination.perPage}
ListOptions(opts, pagination) ==
    [opts EXCEPT !.page = pagination.page, !.perPage = pagination.perPage]

\* ListDiscussionsParams without the check of pinned's error
ListDiscussionsParamsPinnedUnchecked(args) ==
    LET owner == requiredParam(args, "owner")
        repo == requiredParam(args, "repo")
        direction == OptionalParam(args, "direction")
        categoryID == OptionalParam(args, "category_id")
        pinnedStr == OptionalParam(args, "pinned")
        pagination == OptionalPaginationParams(args)
    IN  IF ~owner.err.nil THEN Rejected(owner.err)
        ELSE IF ~repo.err.nil THEN Rejected(repo.err)
        ELSE IF ~direction.err.nil THEN Rejected(direction.err)
        ELSE IF ~categoryID.err.nil THEN Rejected(categoryID.err)
        ELSE IF ~pagination.err.nil THEN Rejected(pagination.err)
        ELSE Accepted(Call("ListDiscussions", owner.s, repo.s, 0,
                 ListOptions([NoOpts EXCEPT !.direction = direction.s,
                                            !.category = categoryID.s,
                                            !.pinned = PinnedOpt(pinnedStr.s)],
                             pagination),
                 NoBody))

ListDiscussionsParams(args) ==
    LET owner == requiredParam(args, "owner")
        repo == requiredParam(args, "repo")
        direction == OptionalParam(args, "direction")
        categoryID == OptionalParam(args, "category_id")
        pinnedStr == OptionalParam(args, "pinned")
        pagination == OptionalPaginationParams(args)
    IN  IF ~owner.err.nil THEN Rejected(owner.err)
        ELSE IF ~repo.err.nil THEN Rejected(repo.err)
        ELSE IF ~direction.err.nil THEN Rejected(direction.err)
        ELSE IF ~categoryID.err.nil THEN Rejected(categoryID.err)
        ELSE IF ~pinnedStr.err.nil THEN Rejected(pinnedStr.err)
        ELSE IF ~pagination.err.nil THEN Rejected(pagination.err)
        ELSE Accepted(Call("ListDiscussions", owner.s, repo.s, 0,
                 ListOptions([NoOpts EXCEPT !.direction = direction.s,
                                            !.category = categoryID.s,
                                            !.pinned = PinnedOpt(pinnedStr.s)],
                             pagination),
                 NoBody))

\* GetDiscussionParams without the check of discussion_number's error
GetDiscussionParamsUnchecked(args) ==
    LET owner == requiredParam(args, "owner")
        repo == requiredParam(args, "repo")
        discussionNumber == RequiredInt(args, "discussion_number")
    IN  IF ~owner.err.nil THEN Rejected(owner.err)
        ELSE IF ~repo.err.nil THEN Rejected(repo.err)
        ELSE Accepted(Call("GetDiscussion", owner.s, repo.s, discussionNumber.n,
                 NoOpts, NoBody))

GetDiscussionParams(args) ==
    LET owner == requiredParam(args, "owner")
        repo == requiredParam(args, "repo")
        discussionNumber == RequiredInt(args, "discussion_number")
    IN  IF ~owner.err.nil THEN Rejected(owner.err)
        ELSE IF ~repo.err.nil THEN Rejected(repo.err)
        ELSE IF ~discussionNumber.err.nil THEN Rejected(discussionNumber.err)
        ELSE Accepted(Call("GetDiscussion", owner.s, repo.s, discussionNumber.n,
                 NoOpts, NoBody))

GetDiscussionCategoriesParams(args) ==
    LET owner == requiredParam(args, "owner")
        repo == requiredParam(args, "repo")
        pagination == OptionalPaginationParams(args)
    IN  IF ~owner.err.nil THEN Rejected(owner.err)
        ELSE IF ~repo.err.nil THEN Rejected(repo.err)
        ELSE IF ~pagination.err.nil THEN Rejected(pagination.err)
        ELSE Accepted(Call("ListDiscussionCategories", owner.s, repo.s, 0,
                 ListOptions(NoOpts, pagination),
                 NoBody))

GetDiscussionCommentsParams(args) ==
    LET owner == requiredParam(args, "owner")
        repo == requiredParam(args, "repo")
        discussionNumber == RequiredInt(args, "discussion_number")
        pagination == OptionalPaginationParams(args)
    IN  IF ~owner.err.nil THEN Rejected(owner.err)
        ELSE IF ~repo.err.nil THEN Rejected(repo.err)
        ELSE IF ~discussionNumber.err.nil THEN Rejected(discussionNumber.err)
        ELSE IF ~pagination.err.nil THEN Rejected(pagination.err)
        ELSE Accepted(Call("ListDiscussionComments", owner.s, repo.s,
                 discussionNumber.n,
                 ListOptions(NoOpts, pagination),
                 NoBody))

\* AddDiscussionCommentParams without the check of body's error
AddDiscussionCommentParamsBodyUnchecked(args) ==
    LET owner == requiredParam(args, "owner")
        repo == requiredParam(args, "repo")
        discussionNumber == RequiredInt(args, "discussion_number")
        body == requiredParam(args, "body")
    IN  IF ~owner.err.nil THEN Rejected(owner.err)
        ELSE IF ~repo.err.nil THEN Rejected(repo.err)
        ELSE IF ~discussionNumber.err.nil THEN Rejected(discussionNumber.err)
        ELSE Accepted(Call("CreateDiscussionComment", owner.s, repo.s,
                 discussionNumber.n, NoOpts,
                 [NoBody EXCEPT !.body = Ptr(body.s)]))

AddDiscussionCommentParams(args) ==
    LET owner == requiredParam(args, "owner")
        repo == requiredParam(args, "repo")
        discussionNumber == RequiredInt(args, "discussion_number")
        body == requiredParam(args, "body")
    IN  IF ~owner.err.nil THEN Rejected(owner.err)
        ELSE IF ~repo.err.nil THEN Rejected(repo.err)
        ELSE IF ~discussionNumber.err.nil THEN Rejected(discussionNumber.err)
        ELSE IF ~body.err.nil THEN Rejected(body.err)
        ELSE Accepted(Call("CreateDiscussionComment", owner.s, repo.s,
                 discussionNumber.n, NoOpts,
                 [NoBody EXCEPT !.body = Ptr(body.s)]))

\* CreateDiscussionParams with title and body exchanged in the request body
CreateDiscussionParamsSwapped(args) ==
    LET owner == requiredParam(args, "owner")
        repo == requiredParam(args, "repo")
        title == requiredParam(args, "title")
        body == requiredParam(args, "body")
        categoryID == requiredParam(args, "category_id")
    IN  IF ~owner.err.nil THEN Rejected(owner.err)
        ELSE IF ~repo.err.nil THEN Rejected(repo.err)
        ELSE IF ~title.err.nil THEN Rejected(title.err)
        ELSE IF ~body.err.nil THEN Rejected(body.err)
        ELSE IF ~categoryID.err.nil THEN Rejected(categoryID.err)
        ELSE Accepted(Call("CreateDiscussion", owner.s, repo.s, 0, NoOpts,
                 [title |-> Ptr(body.s),
                  body |-> Ptr(title.s),
                  category_id |-> Ptr(categoryID.s)]))

\* CreateDiscussionParams with body checked before title
CreateDiscussionParamsBodyFirst(args) ==
    LET owner == requiredParam(args, "owner")
        repo == requiredParam(args, "repo")
        title == requiredParam(args, "title")
        body == requiredParam(args, "body")
        categoryID == requiredParam(args, "category_id")
    IN  IF ~owner.err.nil THEN Rejected(owner.err)
        ELSE IF ~repo.err.nil THEN Rejected(repo.err)
        ELSE IF ~body.err.nil THEN Rejected(body.err)
        ELSE IF ~title.err.nil THEN Rejected(title.err)
        ELSE IF ~categoryID.err.nil THEN Rejected(categoryID.err)
        ELSE Accepted(Call("CreateDiscussion", owner.s, repo.s, 0, NoOpts,
                 [title |-> Ptr(title.s),
                  body |-> Ptr(body.s),
                  category_id |-> Ptr(categoryID.s)]))

CreateDiscussionParams(args) ==
    LET owner == requiredParam(args, "owner")
        repo == requiredParam(args, "repo")
        title == requiredParam(args, "title")
        body == requiredParam(args, "body")
        categoryID == requiredParam(args, "category_id")
    IN  IF ~owner.err.nil THEN Rejected(owner.err)
        ELSE IF ~repo.err.nil THEN Rejected(repo.err)
        ELSE IF ~title.err.nil THEN Rejected(title.err)
        ELSE IF ~body.err.nil THEN Rejected(body.err)
        ELSE IF ~categoryID.err.nil THEN Rejected(categoryID.err)
        ELSE Accepted(Call("CreateDiscussion", owner.s, repo.s, 0, NoOpts,
                 [title |-> Ptr(title.s),
                  body |-> Ptr(body.s),
                  category_id |-> Ptr(categoryID.s)]))

\* The parameter section of the handler registered under the tool's name.
HandlerParams(tool, args) ==
    CASE tool = "list_discussions" -> ListDiscussionsParams(args)
      [] tool = "get_discussion" -> GetDiscussionParams(args)
      [] tool = "get_discussion_categories" -> GetDiscussionCategoriesParams(args)
      [] tool = "get_discussion_comments" -> GetDiscussionCommentsParams(args)
      [] tool = "add_discussion_comment" -> AddDiscussionCommentParams(args)
      [] tool = "create_discussion" -> CreateDiscussionParams(args)

\* every handler expecting 200
SuccessStatusAlwaysOK(tool) == StatusOK

\* The status each handler compares the response status with.
SuccessStatus(tool) ==
    IF tool \in {"add_discussion_comment", "create_discussion"}
    THEN StatusCreated
    ELSE StatusOK

\* one message for every operation
FailedMessageGeneric(tool) == "request failed"

\* the comment handler reusing the message of create_discussion
FailedMessageCopied(tool) ==
    CASE tool = "list_discussions" -> "failed to list discussions"
      [] tool = "get_discussion" -> "failed to get discussion"
      [] tool = "get_discussion_categories" -> "failed to get discussion categories"
      [] tool = "get_discussion_comments" -> "failed to get discussion comments"
      [] tool = "add_discussion_comment" -> "failed to create discussion"
      [] tool = "create_discussion" -> "failed to create discussion"

\* The operation-specific message of the upstream and status errors.
FailedMessage(tool) ==
    CASE tool = "list_discussions" -> "failed to list discussions"
      [] tool = "get_discussion" -> "failed to get discussion"
      [] tool = "get_discussion_categories" -> "failed to get discussion categories"
      [] tool = "get_discussion_comments" -> "failed to get discussion comments"
      [] tool = "add_discussion_comment" -> "failed to create discussion comment"
      [] tool = "create_discussion" -> "failed to create discussion"

\* The message of a serialisation error.
MarshalMessage(tool) ==
    CASE tool = "list_discussions" -> "failed to marshal discussions"
      [] tool = "get_discussion" -> "failed to marshal discussion"
      [] tool = "get_discussion_categories" -> "failed to marshal categories"
      [] tool = "get_discussion_comments" -> "failed to marshal comments"
      [] tool = "add_discussion_comment" -> "failed to marshal response"
      [] tool = "create_discussion" -> "failed to marshal response"

(***************************************************************************)
(* The objects the client decodes and their JSON serialisation.            *)
(***************************************************************************)
Nil == [k |-> "nil", s |-> "", n |-> 0]

\* the fields of a decoded element, in struct order
Fields == <<"number", "title">>

Items ==
    {[number |-> a, title |-> b] :
        a \in {Nil, Num(123)}, b \in {Nil, Str("First Discussion")}}

\* sequences of elements of length lo..hi
SeqsOf(S, lo, hi) == UNION {[1..m -> S] : m \in lo..hi}

\* What a tool's client method decodes: a slice for the list methods, one
\* object for the others (held as a sequence of length one).
Objects(tool) ==
    IF tool \in ListTools THEN SeqsOf(Items, 0, MaxItems) ELSE SeqsOf(Items, 1, 1)

\* json.Marshal of one element with the title left out
MarshalItemWithoutTitle(it) ==
    SelectSeq([j \in 1..Len(Fields) |-> [key |-> Fields[j], val |-> it[Fields[j]]]],
              LAMBDA m : m.val.k # "nil" /\ m.key # "title")

\* json.Marshal of one element: its non-nil fields, in struct order.
MarshalItem(it) ==
    SelectSeq([j \in 1..Len(Fields) |-> [key |-> Fields[j], val |-> it[Fields[j]]]],
              LAMBDA m : m.val.k # "nil")

\* json.Marshal writing the elements last to first
MarshalReversed(obj) == [j \in 1..Len(obj) |-> MarshalItem(obj[Len(obj) + 1 - j])]

\* json.Marshal of the decoded object.
Marshal(obj) == [j \in 1..Len(obj) |-> MarshalItem(obj[j])]

\* json.Unmarshal of one element: a field is nil unless a member names it.
UnmarshalItem(ms) ==
    [f \in {Fields[j] : j \in 1..Len(Fields)} |->
        IF \E j \in 1..Len(ms) : ms[j].key = f
        THEN ms[CHOOSE j \in 1..Len(ms) : ms[j].key = f].val
        ELSE Nil]

\* json.Unmarshal of a payload.
Unmarshal(text) == [j \in 1..Len(text) |-> UnmarshalItem(text[j])]

(***************************************************************************)
(* The upstream client: what one call of a client method returns.          *)
(***************************************************************************)
\* the bodies a response may carry: none, or an error document
Bodies == {"", "{\"message\": \"Repository not found\"}"}

\* The client reports a response outside the 2xx range as an error.
CheckResponse(status) == 200 <= status /\ status <= 299

Return(e, st, b, o) == [err |-> e, status |-> st, body |-> b, obj |-> o]

ClientReturns(tool) ==
    {Return("transport", 0, "", <<>>)}
    \cup {Return("status", st, b, <<>>) :
            st \in {x \in Statuses : ~CheckResponse(x)}, b \in Bodies}
    \cup {Return("decode", st, b, <<>>) :
            st \in {x \in Statuses : CheckResponse(x)}, b \in Bodies}
    \cup {Return("none", st, b, o) :
            st \in {x \in Statuses : CheckResponse(x)}, b \in Bodies,
            o \in Objects(tool)}

NoReturn == Return("", 0, "", <<>>)

(***************************************************************************)
(* What a handler returns: a tool result and a Go error.                   *)
(***************************************************************************)
NilResult == [nil |-> TRUE, isError |-> FALSE, prefix |-> "", detail |-> "", payload |-> <<>>]
NilError == [nil |-> TRUE, prefix |-> "", cause |-> ""]

\* mcp.NewToolResultError(prefix + detail)
NewToolResultError(prefix, detail) ==
    [nil |-> FALSE, isError |-> TRUE, prefix |-> prefix, detail |-> detail, payload |-> <<>>]

\* mcp.NewToolResultText(string(r))
NewToolResultText(r) ==
    [nil |-> FALSE, isError |-> FALSE, prefix |-> "", detail |-> "", payload |-> r]

\* fmt.Errorf(prefix + ": %w", cause)
Errorf(prefix, cause) == [nil |-> FALSE, prefix |-> prefix, cause |-> cause]

Returned(res, e) == [result |-> res, err |-> e]
NotReturned == Returned(NilResult, NilError)

\* a parameter error returned as a Go error
ParamErrorAsGoError(e) == Returned(NilResult, Errorf(e.msg, e.param))

\* return mcp.NewToolResultError(err.Error()), nil
ParamErrorReturn(e) == Returned(NewToolResultError(e.msg, e.param), NilError)

\* the client acquisition failure reported as a textual result
ClientErrorAsResult == Returned(NewToolResultError("failed to get GitHub client", "getClient"), NilError)

\* return nil, fmt.Errorf("failed to get GitHub client: %w", err)
ClientErrorReturn == Returned(NilResult, Errorf("failed to get GitHub client", "getClient"))

\* an upstream error returned as a tool-level result
UpstreamErrorAsResult(tool, cause) ==
    Returned(NewToolResultError(FailedMessage(tool), cause), NilError)

\* return nil, fmt.Errorf("failed to ...: %w", err)
UpstreamErrorReturn(tool, cause) == Returned(NilResult, Errorf(FailedMessage(tool), cause))

\* a read error returned together with a result
ReadErrorWithResult ==
    Returned(NewToolResultError("failed to read response body", "read"),
             Errorf("failed to read response body", "read"))

\* return nil, fmt.Errorf("failed to read response body: %w", err)
ReadErrorReturn == Returned(NilResult, Errorf("failed to read response body", "read"))

\* return mcp.NewToolResultError(fmt.Sprintf("failed to ...: %s", string(body))), nil
StatusErrorReturn(tool, body) ==
    Returned(NewToolResultError(FailedMessage(tool), body), NilError)

\* return nil, fmt.Errorf("failed to marshal ...: %w", err)
MarshalErrorReturn(tool) == Returned(NilResult, Errorf(MarshalMessage(tool), "marshal"))

\* return mcp.NewToolResultText(string(r)), nil
SuccessReturn(r) == Returned(NewToolResultText(r), NilError)

\* any 2xx status accepted
StatusRejectedOutside2xx(tool, status) == ~CheckResponse(status)

\* if resp.StatusCode != http.StatusOK (http.StatusCreated for the two writes)
StatusRejected(tool, status) == status # SuccessStatus(tool)

(***************************************************************************)
(* State: the invocations of the handlers.  Each invocation is a call of   *)
(* one handler closure with its own request and local variables.           *)
(***************************************************************************)
InvIds == {1, 2}

IdleRequest == [tool |-> "", args |-> NoArgs]

VARIABLES
    pc,        \* where each invocation is in its handler
    request,   \* the request each invocation was called with
    call,      \* the upstream call built from the validated parameters
    sent,      \* the upstream calls each invocation has made, in order
    resp,      \* what the client method returned
    outcome,   \* what the handler returned
    log        \* the steps each invocation has taken, with their success

vars == <<pc, request, call, sent, resp, outcome, log>>

Step(name, ok) == [step |-> name, ok |-> ok]

Init ==
    /\ request = [i \in InvIds |-> IdleRequest]
    /\ pc = [i \in InvIds |-> IF i = 1 THEN "idle" ELSE "unused"]
    /\ call = [i \in InvIds |-> NoCall]
    /\ sent = [i \in InvIds |-> <<>>]
    /\ resp = [i \in InvIds |-> NoReturn]
    /\ outcome = [i \in InvIds |-> NotReturned]
    /\ log = [i \in InvIds |-> <<>>]

\* The runtime routes a request to the handler registered under its tool name.
Invoke(i) ==
    /\ pc[i] = "idle"
    /\ \E t \in Tools : \E a \in ArgsOf(t) :
        request' = [request EXCEPT ![i] = Request(t, a)]
    /\ pc' = [pc EXCEPT ![i] = "start"]
    /\ UNCHANGED <<call, sent, resp, outcome, log>>

\* Validate with the built call kept in one variable shared by all invocations
ValidateShared(i) ==
    /\ pc[i] = "start"
    /\ LET p == HandlerParams(request[i].tool, request[i].args)
       IN  IF ~p.err.nil
           THEN /\ outcome' = [outcome EXCEPT ![i] = ParamErrorReturn(p.err)]
                /\ pc' = [pc EXCEPT ![i] = "done"]
                /\ log' = [log EXCEPT ![i] = Append(@, Step("params", FALSE))]
                /\ call' = call
           ELSE /\ call' = [j \in InvIds |-> p.call]
                /\ pc' = [pc EXCEPT ![i] = "getClient"]
                /\ log' = [log EXCEPT ![i] = Append(@, Step("params", TRUE))]
                /\ outcome' = outcome
    /\ UNCHANGED <<request, sent, resp>>

\* Parameter extraction and validation, up to the first error.
Validate(i) ==
    /\ pc[i] = "start"
    /\ LET p == HandlerParams(request[i].tool, request[i].args)
       IN  IF ~p.err.nil
           THEN /\ outcome' = [outcome EXCEPT ![i] = ParamErrorReturn(p.err)]
                /\ pc' = [pc EXCEPT ![i] = "done"]
                /\ log' = [log EXCEPT ![i] = Append(@, Step("params", FALSE))]
                /\ call' = call
           ELSE /\ call' = [call EXCEPT ![i] = p.call]
                /\ pc' = [pc EXCEPT ![i] = "getClient"]
                /\ log' = [log EXCEPT ![i] = Append(@, Step("params", TRUE))]
                /\ outcome' = outcome
    /\ UNCHANGED <<request, sent, resp>>

\* client, err := getClient(ctx)
GetClient(i) ==
    /\ pc[i] = "getClient"
    /\ \E ok \in BOOLEAN :
        /\ log' = [log EXCEPT ![i] = Append(@, Step("getClient", ok))]
        /\ IF ok
           THEN /\ pc' = [pc EXCEPT ![i] = "call"]
                /\ outcome' = outcome
           ELSE /\ pc' = [pc EXCEPT ![i] = "done"]
                /\ outcome' = [outcome EXCEPT ![i] = ClientErrorReturn]
    /\ UNCHANGED <<request, call, sent, resp>>

\* CallUpstream with one retry after a failed call
CallUpstreamRetry(i) ==
    /\ pc[i] = "call"
    /\ \E r \in ClientReturns(request[i].tool) :
        /\ sent' = [sent EXCEPT ![i] =
                       IF r.err # "none" THEN @ \o <<call[i], call[i]>>
                       ELSE Append(@, call[i])]
        /\ resp' = [resp EXCEPT ![i] = r]
        /\ log' = [log EXCEPT ![i] = Append(@, Step("call", r.err = "none"))]
        /\ IF r.err # "none"
           THEN /\ pc' = [pc EXCEPT ![i] = "done"]
                /\ outcome' = [outcome EXCEPT ![i] =
                                  UpstreamErrorReturn(request[i].tool, r.err)]
           ELSE /\ pc' = [pc EXCEPT ![i] = "status"]
                /\ outcome' = outcome
    /\ UNCHANGED <<request, call>>

\* x, resp, err := client.Discussions.<Method>(ctx, ...)
CallUpstream(i) ==
    /\ pc[i] = "call"
    /\ \E r \in ClientReturns(request[i].tool) :
        /\ sent' = [sent EXCEPT ![i] = Append(@, call[i])]
        /\ resp' = [resp EXCEPT ![i] = r]
        /\ log' = [log EXCEPT ![i] = Append(@, Step("call", r.err = "none"))]
        /\ IF r.err # "none"
           THEN /\ pc' = [pc EXCEPT ![i] = "done"]
                /\ outcome' = [outcome EXCEPT ![i] =
                                  UpstreamErrorReturn(request[i].tool, r.err)]
           ELSE /\ pc' = [pc EXCEPT ![i] = "status"]
                /\ outcome' = outcome
    /\ UNCHANGED <<request, call>>

\* The status differs from the expected one: read the body, report it.
StatusError(i) ==
    /\ pc[i] = "status"
    /\ StatusRejected(request[i].tool, resp[i].status)
    /\ \E ok \in BOOLEAN :
        /\ log' = [log EXCEPT ![i] =
                      @ \o <<Step("status", FALSE), Step("readBody", ok)>>]
        /\ outcome' = [outcome EXCEPT ![i] =
                          IF ok THEN StatusErrorReturn(request[i].tool, resp[i].body)
                          ELSE ReadErrorReturn]
    /\ pc' = [pc EXCEPT ![i] = "done"]
    /\ UNCHANGED <<request, call, sent, resp>>

\* json.Marshal returns an error only for a value it cannot encode, which an
\* element of the decoded object may hold; an empty slice always encodes.
MarshalResults(obj) == IF obj = <<>> THEN {TRUE} ELSE BOOLEAN

\* The status is the expected one: serialise the decoded object.
Serialize(i) ==
    /\ pc[i] = "status"
    /\ ~StatusRejected(request[i].tool, resp[i].status)
    /\ \E ok \in MarshalResults(resp[i].obj) :
        /\ log' = [log EXCEPT ![i] =
                      @ \o <<Step("status", TRUE), Step("marshal", ok)>>]
        /\ outcome' = [outcome EXCEPT ![i] =
                          IF ok THEN SuccessReturn(Marshal(resp[i].obj))
                          ELSE MarshalErrorReturn(request[i].tool)]
    /\ pc' = [pc EXCEPT ![i] = "done"]
    /\ UNCHANGED <<request, call, sent, resp>>

Next ==
    \E i \in InvIds :
        \/ Invoke(i)
        \/ Validate(i)
        \/ GetClient(i)
        \/ CallUpstream(i)
        \/ StatusError(i)
        \/ Serialize(i)

Spec == Init /\ [][Next]_vars

(***************************************************************************)
(* Concurrent invocations: the runtime may call handlers while others are  *)
(* running.  Two invocations run interleaved, each with one of a few       *)
(* requests and client returns.                                            *)
(***************************************************************************)
TestArgs == [NoArgs EXCEPT !["owner"] = Str("owner"), !["repo"] = Str("repo")]

ConcRequests ==
    {Request("get_discussion_comments",
             [TestArgs EXCEPT !["discussion_number"] = Num(42),
                              !["page"] = Num(2), !["perPage"] = Num(1)]),
     Request("create_discussion",
             [TestArgs EXCEPT !["title"] = Str("Test Discussion"),
                              !["body"] = Str("This is a test comment"),
                              !["category_id"] = Str("1")]),
     Request("add_discussion_comment",
             [TestArgs EXCEPT !["discussion_number"] = Num(42),
                              !["body"] = Str("")])}

ConcObject == <<[number |-> Num(123), title |-> Str("First Discussion")]>>

ConcReturns ==
    {Return("transport", 0, "", <<>>),
     Return("status", StatusNotFound, "{\"message\": \"Repository not found\"}", <<>>),
     Return("none", StatusOK, "", ConcObject),
     Return("none", StatusCreated, "", ConcObject)}

InitConc ==
    /\ request = [i \in InvIds |-> IdleRequest]
    /\ pc = [i \in InvIds |-> "idle"]
    /\ call = [i \in InvIds |-> NoCall]
    /\ sent = [i \in InvIds |-> <<>>]
    /\ resp = [i \in InvIds |-> NoReturn]
    /\ outcome = [i \in InvIds |-> NotReturned]
    /\ log = [i \in InvIds |-> <<>>]

\* The runtime routes one of the requests to its handler.
InvokeConc(i) ==
    /\ pc[i] = "idle"
    /\ \E r \in ConcRequests :
        request' = [request EXCEPT ![i] = r]
    /\ pc' = [pc EXCEPT ![i] = "start"]
    /\ UNCHANGED <<call, sent, resp, outcome, log>>

\* The client call, returning one of the returns above.
CallUpstreamConc(i) ==
    /\ CallUpstream(i)
    /\ resp'[i] \in ConcReturns

NextConc ==
    \E i \in InvIds :
        \/ InvokeConc(i)
        \/ Validate(i)
        \/ GetClient(i)
        \/ CallUpstreamConc(i)
        \/ StatusError(i)
        \/ Serialize(i)

SpecConc == InitConc /\ [][NextConc]_vars

(***************************************************************************)
(* Vocabulary of the properties.                                           *)
(***************************************************************************)
Started(i) == pc[i] \notin {"unused", "idle", "start"}
Done(i) == pc[i] = "done"
Tool(i) == request[i].tool
Args(i) == request[i].args

\* the invocation took the step, with the given success
Took(i, name, ok) == \E j \in 1..Len(log[i]) : log[i][j] = Step(name, ok)
\* the invocation took the step at all
Reached(i, name) == \E j \in 1..Len(log[i]) : log[i][j].step = name

\* the three shapes of what a handler returns
IsSuccess(o) == ~o.result.nil /\ ~o.result.isError /\ o.err.nil
IsToolError(o) == ~o.result.nil /\ o.result.isError /\ o.err.nil
IsHardError(o) == o.result.nil /\ ~o.err.nil

\* the client method returned a response without an error
Answered(i) == Took(i, "call", TRUE)

(***************************************************************************)
(* C1: in each of the six handlers, a request that lacks a parameter the   *)
(* schema marks required ends with a tool-level textual error (result      *)
(* non-nil, Go error nil); no upstream call is made and the client is      *)
(* never acquired.                                                         *)
(***************************************************************************)
C1_MissingRequiredParam ==
    \A i \in InvIds :
        (Started(i) /\ \E p \in SchemaRequired(Tool(i)) : Args(i)[p] = Absent)
        => /\ Done(i)
           /\ IsToolError(outcome[i])
           /\ sent[i] = <<>>
           /\ ~Reached(i, "getClient")
           /\ ~Reached(i, "call")

\* create_discussion without category_id, everything else valid
C1_Witness ==
    /\ Done(1)
    /\ Tool(1) = "create_discussion"
    /\ Args(1).category_id = Absent
    /\ \A p \in {"owner", "repo", "title", "body"} : Args(1)[p].k = "string" /\ Args(1)[p].s # ""
    /\ outcome[1].result.detail = "category_id"

(***************************************************************************)
(* C2: an invocation makes at most one upstream call; it has made exactly  *)
(* one when it ends after validation passed and the client was obtained;   *)
(* a failed call or a rejected status is never followed by a second call.  *)
(***************************************************************************)
C2_AtMostOneCall ==
    \A i \in InvIds :
        /\ Len(sent[i]) <= 1
        /\ (Reached(i, "call") \/ Reached(i, "status")) => Len(sent[i]) = 1
        /\ (Done(i) /\ Took(i, "params", TRUE) /\ Took(i, "getClient", TRUE))
            => Len(sent[i]) = 1
        /\ Len(sent[i]) = 1
            => (Took(i, "params", TRUE) /\ Took(i, "getClient", TRUE))

\* an invocation that ended after the upstream call failed
C2_Witness ==
    /\ Done(1)
    /\ Took(1, "call", FALSE)
    /\ resp[1].status = StatusNotFound
    /\ Len(sent[1]) = 1

WriteTools == Tools \ ReadTools

\* the client method was called and a response with a status came back
Responded(i) == Len(sent[i]) = 1 /\ resp[i].err # "transport"

(***************************************************************************)
(* C3 as stated: for the four read operations the success payload is       *)
(* returned only for status 200, and any other response status yields a    *)
(* textual error that contains the raw response body, the payload never    *)
(* being serialised.                                                       *)
(***************************************************************************)
C3_AsStated ==
    \A i \in InvIds :
        (Done(i) /\ Tool(i) \in ReadTools /\ Responded(i))
        => /\ IsSuccess(outcome[i]) => resp[i].status = StatusOK
           /\ resp[i].status # StatusOK
               => /\ IsToolError(outcome[i])
                  /\ outcome[i].result.detail = resp[i].body
                  /\ ~Reached(i, "marshal")

(***************************************************************************)
(* C3 amended: for the four read operations the success payload is         *)
(* returned only when the client call returned without error and the       *)
(* status is 200.  For any other status the client returns without error   *)
(* (another 2xx such as 201) the payload is never serialised and the       *)
(* outcome is a textual error containing the raw response body, or a hard  *)
(* error when reading the body fails.  A status the client reports as an   *)
(* error (404, 422) yields a hard error, no body read, no serialisation.   *)
(***************************************************************************)
C3_ReadStatusPolicy ==
    \A i \in InvIds :
        (Done(i) /\ Tool(i) \in ReadTools /\ Responded(i))
        => /\ IsSuccess(outcome[i]) => (Answered(i) /\ resp[i].status = StatusOK)
           /\ (Answered(i) /\ resp[i].status # StatusOK)
               => /\ ~Reached(i, "marshal")
                  /\ Reached(i, "readBody")
                  /\ Took(i, "readBody", TRUE)
                      => /\ IsToolError(outcome[i])
                         /\ outcome[i].result.detail = resp[i].body
                  /\ Took(i, "readBody", FALSE) => IsHardError(outcome[i])
           /\ ~Answered(i)
               => /\ IsHardError(outcome[i])
                  /\ ~Reached(i, "readBody")
                  /\ ~Reached(i, "marshal")

\* a read answered 201 ends with a textual error carrying the body
C3_Witness ==
    /\ Done(1)
    /\ Tool(1) = "get_discussion"
    /\ Answered(1)
    /\ resp[1].status = StatusCreated
    /\ resp[1].body # ""
    /\ IsToolError(outcome[1])
    /\ outcome[1].result.detail = resp[1].body

(***************************************************************************)
(* C4 as stated: for add_discussion_comment and create_discussion a 201    *)
(* response yields the created object as the result, and any other         *)
(* response status yields an error containing the response body text.      *)
(***************************************************************************)
\* an error whose text contains the body (any text contains the empty body)
CarriesBody(o, b) ==
    \/ IsToolError(o) /\ (b = "" \/ o.result.detail = b)
    \/ IsHardError(o) /\ (b = "" \/ o.err.cause = b)

C4_AsStated ==
    \A i \in InvIds :
        (Done(i) /\ Tool(i) \in WriteTools /\ Responded(i))
        => /\ (Answered(i) /\ resp[i].status = StatusCreated)
               => /\ IsSuccess(outcome[i])
                  /\ Unmarshal(outcome[i].result.payload) = resp[i].obj
           /\ resp[i].status # StatusCreated => CarriesBody(outcome[i], resp[i].body)

(***************************************************************************)
(* C4 amended: for add_discussion_comment and create_discussion a 201      *)
(* response the client returns without error yields the created object as  *)
(* the result unless serialisation fails (a hard error); any other status  *)
(* returned without error (such as 200) yields a textual error containing  *)
(* the response body text, or a hard error when reading the body fails; a  *)
(* status the client reports as an error (such as 422) yields a hard error *)
(* wrapping the client's error, the body not being read.                   *)
(***************************************************************************)
C4_WriteStatusPolicy ==
    \A i \in InvIds :
        (Done(i) /\ Tool(i) \in WriteTools /\ Responded(i))
        => /\ (Answered(i) /\ resp[i].status = StatusCreated)
               => /\ Reached(i, "marshal")
                  /\ Took(i, "marshal", TRUE)
                      => /\ IsSuccess(outcome[i])
                         /\ Unmarshal(outcome[i].result.payload) = resp[i].obj
                  /\ Took(i, "marshal", FALSE) => IsHardError(outcome[i])
           /\ (Answered(i) /\ resp[i].status # StatusCreated)
               => /\ ~Reached(i, "marshal")
                  /\ Reached(i, "readBody")
                  /\ Took(i, "readBody", TRUE) => /\ IsToolError(outcome[i])
                                                  /\ outcome[i].result.detail = resp[i].body
                  /\ Took(i, "readBody", FALSE) => IsHardError(outcome[i])
           /\ ~Answered(i)
               => /\ IsHardError(outcome[i])
                  /\ outcome[i].err.cause = resp[i].err
                  /\ ~Reached(i, "readBody")

\* create_discussion answered 201 returns the created object
C4_Witness ==
    /\ Done(1)
    /\ Tool(1) = "create_discussion"
    /\ Answered(1)
    /\ resp[1].status = StatusCreated
    /\ resp[1].obj[1].title # Nil
    /\ IsSuccess(outcome[1])
    /\ Unmarshal(outcome[1].result.payload) = resp[1].obj

(***************************************************************************)
(* C5 as stated: a missing or mistyped parameter is always a tool-level    *)
(* textual error and never a hard error; an error returned by the client   *)
(* method is always a hard error, with no body read and no serialisation;  *)
(* a non-success status on a call that returned without error is a         *)
(* tool-level textual error carrying the response body.                    *)
(***************************************************************************)
C5_ParamChannel ==
    \A i \in InvIds :
        (Done(i) /\ Took(i, "params", FALSE))
        => /\ IsToolError(outcome[i])
           /\ outcome[i].result.prefix \in
                 {"missing required parameter: ", "parameter is not of type: "}

C5_UpstreamChannel ==
    \A i \in InvIds :
        (Done(i) /\ Took(i, "call", FALSE))
        => /\ IsHardError(outcome[i])
           /\ ~Reached(i, "readBody")
           /\ ~Reached(i, "marshal")

C5_AsStated ==
    /\ C5_ParamChannel
    /\ C5_UpstreamChannel
    /\ \A i \in InvIds :
        (Done(i) /\ Answered(i) /\ resp[i].status # SuccessStatus(Tool(i)))
        => /\ IsToolError(outcome[i])
           /\ outcome[i].result.detail = resp[i].body

(***************************************************************************)
(* C5 amended: as stated, except that a non-success status on a call that  *)
(* returned without error is a tool-level textual error carrying the       *)
(* response body when the body can be read, and a hard error ("failed to   *)
(* read response body") when reading it fails.                             *)
(***************************************************************************)
C5_ErrorChannels ==
    /\ C5_ParamChannel
    /\ C5_UpstreamChannel
    /\ \A i \in InvIds :
        (Done(i) /\ Answered(i) /\ resp[i].status # SuccessStatus(Tool(i)))
        => /\ Reached(i, "readBody")
           /\ Took(i, "readBody", TRUE)
               => /\ IsToolError(outcome[i])
                  /\ outcome[i].result.detail = resp[i].body
           /\ Took(i, "readBody", FALSE)
               => /\ IsHardError(outcome[i])
                  /\ outcome[i].err.prefix = "failed to read response body"

\* a mistyped required parameter reported as a tool-level error
C5_Witness ==
    /\ Done(1)
    /\ Tool(1) = "add_discussion_comment"
    /\ Args(1).owner.k = "string" /\ Args(1).owner.s # ""
    /\ Args(1).repo.k = "string" /\ Args(1).repo.s # ""
    /\ Args(1).discussion_number.k = "string"
    /\ IsToolError(outcome[1])
    /\ outcome[1].result.prefix = "parameter is not of type: "
    /\ outcome[1].result.detail = "discussion_number"

(***************************************************************************)
(* C6: for get_discussion, get_discussion_categories and                   *)
(* get_discussion_comments, an upstream answer of 404 ends the invocation  *)
(* with a hard error (nil result, non-nil Go error) whose message carries  *)
(* the operation's phrase, not with a tool-level result.                   *)
(***************************************************************************)
C6_Phrase(tool) ==
    CASE tool = "get_discussion" -> "failed to get discussion"
      [] tool = "get_discussion_categories" -> "failed to get discussion categories"
      [] tool = "get_discussion_comments" -> "failed to get discussion comments"

C6_NotFoundIsHardError ==
    \A i \in InvIds :
        (Tool(i) \in {"get_discussion", "get_discussion_categories",
                      "get_discussion_comments"}
         /\ Responded(i) /\ resp[i].status = StatusNotFound)
        => /\ Done(i)
           /\ IsHardError(outcome[i])
           /\ outcome[i].err.prefix = C6_Phrase(Tool(i))

\* get_discussion_comments answered 404 with an error body
C6_Witness ==
    /\ Done(1)
    /\ Tool(1) = "get_discussion_comments"
    /\ Responded(1)
    /\ resp[1].status = StatusNotFound
    /\ resp[1].body # ""
    /\ outcome[1].err.prefix = "failed to get discussion comments"

(***************************************************************************)
(* C7: for list_discussions and create_discussion, an upstream answer with *)
(* a failure status (404, 422) ends the invocation in a failure, a hard    *)
(* error or a tool-level error result, whose message carries the           *)
(* operation's phrase; it never ends with a success payload.               *)
(***************************************************************************)
C7_Phrase(tool) ==
    CASE tool = "list_discussions" -> "failed to list discussions"
      [] tool = "create_discussion" -> "failed to create discussion"

C7_FailureStatusFails ==
    \A i \in InvIds :
        (Tool(i) \in {"list_discussions", "create_discussion"}
         /\ Responded(i)
         /\ resp[i].status \in {StatusNotFound, StatusUnprocessableEntity})
        => /\ Done(i)
           /\ ~IsSuccess(outcome[i])
           /\ \/ IsHardError(outcome[i]) /\ outcome[i].err.prefix = C7_Phrase(Tool(i))
              \/ IsToolError(outcome[i]) /\ outcome[i].result.prefix = C7_Phrase(Tool(i))

\* create_discussion answered 422 with an error body
C7_Witness ==
    /\ Done(1)
    /\ Tool(1) = "create_discussion"
    /\ Responded(1)
    /\ resp[1].status = StatusUnprocessableEntity
    /\ resp[1].body # ""
    /\ ~IsSuccess(outcome[1])

(***************************************************************************)
(* C8: an invocation ends with exactly one of three outcomes: a success    *)
(* text result with nil error, a tool-level error result with nil error,   *)
(* or a nil result with a non-nil error.  Result and error are never both  *)
(* nil and never both non-nil, and a success payload is never returned     *)
(* after a step (validation, client acquisition, upstream call, status     *)
(* check, body read, serialisation) has failed.                            *)
(***************************************************************************)
C8_OneOutcome ==
    \A i \in InvIds :
        /\ Done(i)
            => /\ outcome[i].result.nil # outcome[i].err.nil
               /\ \/ IsSuccess(outcome[i])
                  \/ IsToolError(outcome[i])
                  \/ IsHardError(outcome[i])
               /\ IsSuccess(outcome[i])
                   => /\ \A j \in 1..Len(log[i]) : log[i][j].ok
                      /\ Took(i, "marshal", TRUE)
               /\ (\E j \in 1..Len(log[i]) : ~log[i][j].ok) => ~IsSuccess(outcome[i])
        /\ ~Done(i) => outcome[i] = NotReturned

\* an invocation that ended after the body could not be read
C8_Witness ==
    /\ Done(1)
    /\ Took(1, "readBody", FALSE)
    /\ IsHardError(outcome[1])

(***************************************************************************)
(* C9: for list_discussions, get_discussion_categories and                 *)
(* get_discussion_comments, when the request supplies page and perPage,    *)
(* the upstream call carries exactly those values as its page and          *)
(* per-page options.                                                       *)
(***************************************************************************)
C9_PaginationForwarded ==
    \A i \in InvIds :
        (Tool(i) \in ListTools /\ Len(sent[i]) = 1
         /\ Args(i).page.k = "number" /\ Args(i).perPage.k = "number")
        => /\ sent[i][1].opts.page = Args(i).page.n
           /\ sent[i][1].opts.perPage = Args(i).perPage.n

\* get_discussion_comments called with page 2 and perPage 1
C9_Witness ==
    /\ Tool(1) = "get_discussion_comments"
    /\ Len(sent[1]) = 1
    /\ Args(1).page = Num(2)
    /\ Args(1).perPage = Num(1)
    /\ sent[1][1].opts.page = 2
    /\ sent[1][1].opts.perPage = 1

(***************************************************************************)
(* C10 as stated: for every read operation, a response of status 200       *)
(* gives a result that is a JSON text payload deserialising to an object   *)
(* structurally equal to the one the upstream returned.                    *)
(***************************************************************************)
C10_AsStated ==
    \A i \in InvIds :
        (Done(i) /\ Tool(i) \in ReadTools /\ Answered(i) /\ resp[i].status = StatusOK)
        => /\ IsSuccess(outcome[i])
           /\ Unmarshal(outcome[i].result.payload) = resp[i].obj

(***************************************************************************)
(* C10 amended: for every read operation, a response of status 200 whose   *)
(* object serialises gives a result that is a JSON text payload            *)
(* deserialising to an object structurally equal to the one the upstream   *)
(* returned, no field filtered, added or transformed; when serialisation   *)
(* fails the outcome is a hard error and no payload is returned.           *)
(***************************************************************************)
C10_FaithfulPayload ==
    \A i \in InvIds :
        (Done(i) /\ Tool(i) \in ReadTools /\ Answered(i) /\ resp[i].status = StatusOK)
        => /\ Reached(i, "marshal")
           /\ Took(i, "marshal", TRUE)
               => /\ IsSuccess(outcome[i])
                  /\ Len(outcome[i].result.payload) = Len(resp[i].obj)
                  /\ Unmarshal(outcome[i].result.payload) = resp[i].obj
           /\ Took(i, "marshal", FALSE)
               => /\ IsHardError(outcome[i])
                  /\ outcome[i].result.payload = <<>>

\* list_discussions answered 200 with two elements, one without a title
C10_Witness ==
    /\ Done(1)
    /\ Tool(1) = "list_discussions"
    /\ Answered(1)
    /\ resp[1].status = StatusOK
    /\ Len(resp[1].obj) = 2
    /\ resp[1].obj[1].title # Nil
    /\ resp[1].obj[2].title = Nil
    /\ resp[1].obj[2].number # Nil
    /\ IsSuccess(outcome[1])
    /\ Unmarshal(outcome[1].result.payload) = resp[1].obj

(***************************************************************************)
(* C11: for list_discussions, get_discussion_categories and                *)
(* get_discussion_comments, a successful result holds as many elements as  *)
(* the upstream response, in the same order, each element keeping its      *)
(* identifying fields (number and title).                                  *)
(***************************************************************************)
\* the value a serialised element gives for a key, Nil when it has none
MemberValue(ms, key) ==
    IF \E j \in 1..Len(ms) : ms[j].key = key
    THEN ms[CHOOSE j \in 1..Len(ms) : ms[j].key = key].val
    ELSE Nil

C11_ElementsInOrder ==
    \A i \in InvIds :
        (Done(i) /\ Tool(i) \in ListTools /\ IsSuccess(outcome[i]))
        => /\ Len(outcome[i].result.payload) = Len(resp[i].obj)
           /\ \A j \in 1..Len(resp[i].obj) :
                /\ j <= Len(outcome[i].result.payload)
                /\ MemberValue(outcome[i].result.payload[j], "number") = resp[i].obj[j].number
                /\ MemberValue(outcome[i].result.payload[j], "title") = resp[i].obj[j].title

\* listing with no filters returns the two upstream discussions in their order
C11_Witness ==
    /\ Done(1)
    /\ Tool(1) = "list_discussions"
    /\ \A p \in SchemaOptional("list_discussions") : Args(1)[p] = Absent
    /\ IsSuccess(outcome[1])
    /\ Len(resp[1].obj) = 2
    /\ resp[1].obj[1] = [number |-> Num(123), title |-> Str("First Discussion")]
    /\ resp[1].obj[2] = [number |-> Num(123), title |-> Nil]
    /\ MemberValue(outcome[1].result.payload[1], "title") = Str("First Discussion")
    /\ MemberValue(outcome[1].result.payload[2], "title") = Nil

\* a value of the primitive type the parameter is declared with, not its zero value
NumberParams == {"discussion_number", "page", "perPage"}
GoodValue(p, v) ==
    IF p \in NumberParams THEN v.k = "number" /\ v.n # 0
    ELSE v.k = "string" /\ v.s # ""

(***************************************************************************)
(* C12: add_discussion_comment with valid owner, repo and                  *)
(* discussion_number and body equal to the empty string fails parameter    *)
(* validation: the result is a textual error "missing required parameter:  *)
(* body", the Go error is nil, and no upstream request is sent.            *)
(***************************************************************************)
C12_EmptyBodyRejected ==
    \A i \in InvIds :
        (Started(i) /\ Tool(i) = "add_discussion_comment"
         /\ \A p \in {"owner", "repo", "discussion_number"} : GoodValue(p, Args(i)[p])
         /\ Args(i).body = Str(""))
        => /\ Done(i)
           /\ IsToolError(outcome[i])
           /\ outcome[i].result.prefix = "missing required parameter: "
           /\ outcome[i].result.detail = "body"
           /\ outcome[i].err = NilError
           /\ sent[i] = <<>>
           /\ ~Reached(i, "call")

\* the comment request of the test, with body ""
C12_Witness ==
    /\ Done(1)
    /\ Tool(1) = "add_discussion_comment"
    /\ Args(1).owner = Str("owner")
    /\ Args(1).repo = Str("repo")
    /\ Args(1).discussion_number = Num(42)
    /\ Args(1).body = Str("")
    /\ outcome[1].result.detail = "body"
    /\ sent[1] = <<>>

(***************************************************************************)
(* C13: for each tool, the parameters the schema declares required are     *)
(* those of the interface table, and they are exactly the parameters whose *)
(* absence the handler rejects: with every other declared parameter given  *)
(* a valid value, a request lacking a parameter is rejected if and only if *)
(* the schema marks that parameter required.                               *)
(***************************************************************************)
C13_Table(tool) ==
    CASE tool = "list_discussions" -> {"owner", "repo"}
      [] tool = "get_discussion_categories" -> {"owner", "repo"}
      [] tool = "get_discussion" -> {"owner", "repo", "discussion_number"}
      [] tool = "get_discussion_comments" -> {"owner", "repo", "discussion_number"}
      [] tool = "add_discussion_comment" ->
            {"owner", "repo", "discussion_number", "body"}
      [] tool = "create_discussion" ->
            {"owner", "repo", "title", "body", "category_id"}

\* the request lacks exactly p among the tool's declared parameters
LacksOnly(i, p) ==
    /\ Args(i)[p] = Absent
    /\ \A q \in SchemaProperties(Tool(i)) \ {p} : GoodValue(q, Args(i)[q])

C13_RequiredMatchesHandler ==
    \A i \in InvIds :
        Started(i)
        => /\ SchemaRequired(Tool(i)) = C13_Table(Tool(i))
           /\ \A p \in SchemaProperties(Tool(i)) :
                LacksOnly(i, p)
                => (Took(i, "params", FALSE) <=> p \in SchemaRequired(Tool(i)))

\* create_discussion lacking only category_id is rejected
C13_Witness ==
    /\ Done(1)
    /\ Tool(1) = "create_discussion"
    /\ LacksOnly(1, "category_id")
    /\ Took(1, "params", FALSE)
    /\ outcome[1].result.prefix = "missing required parameter: "

(***************************************************************************)
(* C14: for list_discussions, a supplied direction (asc, desc), category_id *)
(* and pinned ("true", "false") reach the upstream call as the same         *)
(* direction, the category filter and the boolean pinned filter; a filter   *)
(* whose parameter is absent or empty is left unset.                        *)
(***************************************************************************)
Unsupplied(v) == v = Absent \/ v = Str("")

C14_FiltersForwarded ==
    \A i \in InvIds :
        (Tool(i) = "list_discussions" /\ Len(sent[i]) = 1)
        => LET o == sent[i][1].opts
               a == Args(i)
           IN  /\ a.direction \in {Str("asc"), Str("desc")} => o.direction = a.direction.s
               /\ Unsupplied(a.direction) => o.direction = ""
               /\ GoodValue("category_id", a.category_id) => o.category = a.category_id.s
               /\ Unsupplied(a.category_id) => o.category = ""
               /\ a.pinned = Str("true") => o.pinned = "true"
               /\ a.pinned = Str("false") => o.pinned = "false"
               /\ Unsupplied(a.pinned) => o.pinned = "nil"

\* direction desc, category 1 and pinned false sent upstream, page left out
C14_Witness ==
    /\ Tool(1) = "list_discussions"
    /\ Len(sent[1]) = 1
    /\ Args(1).direction = Str("desc")
    /\ Args(1).category_id = Str("1")
    /\ Args(1).pinned = Str("false")
    /\ sent[1][1].opts.direction = "desc"
    /\ sent[1][1].opts.category = "1"
    /\ sent[1][1].opts.pinned = "false"

(***************************************************************************)
(* C15: the upstream call of create_discussion carries a body with exactly *)
(* title, body and category_id equal to the supplied parameters, and that  *)
(* of add_discussion_comment a body with exactly body equal to the         *)
(* supplied parameter; owner, repo and discussion_number are the call's    *)
(* addressing arguments, unchanged, and the handler sets no other field.   *)
(***************************************************************************)
C15_WriteRequestBody ==
    \A i \in InvIds :
        /\ (Tool(i) = "create_discussion" /\ Len(sent[i]) = 1)
            => LET c == sent[i][1]
                   a == Args(i)
               IN  /\ c.method = "CreateDiscussion"
                   /\ c.body = [title |-> [nil |-> FALSE, v |-> a.title.s],
                                body |-> [nil |-> FALSE, v |-> a.body.s],
                                category_id |-> [nil |-> FALSE, v |-> a.category_id.s]]
                   /\ c.owner = a.owner.s
                   /\ c.repo = a.repo.s
                   /\ c.number = 0
                   /\ c.opts = NoOpts
        /\ (Tool(i) = "add_discussion_comment" /\ Len(sent[i]) = 1)
            => LET c == sent[i][1]
                   a == Args(i)
               IN  /\ c.method = "CreateDiscussionComment"
                   /\ c.body = [title |-> [nil |-> TRUE, v |-> ""],
                                body |-> [nil |-> FALSE, v |-> a.body.s],
                                category_id |-> [nil |-> TRUE, v |-> ""]]
                   /\ c.owner = a.owner.s
                   /\ c.repo = a.repo.s
                   /\ c.number = a.discussion_number.n
                   /\ c.opts = NoOpts

\* the create_discussion request of the test has been sent
C15_Witness ==
    /\ Tool(1) = "create_discussion"
    /\ Len(sent[1]) = 1
    /\ Args(1).title = Str("Test Discussion")
    /\ Args(1).category_id = Str("1")
    /\ sent[1][1].body.title.v = "Test Discussion"
    /\ sent[1][1].body.body.v = "This is a test comment"
    /\ sent[1][1].body.category_id.v = "1"
    /\ sent[1][1].owner = "owner"

(***************************************************************************)
(* C16: on a non-success status the textual error of an operation is the   *)
(* raw response body prefixed with that operation's message; the six       *)
(* operations use six pairwise different prefixes, so the prefix of an     *)
(* error text is the prefix of no other operation.                         *)
(***************************************************************************)
C16_Prefix(tool) ==
    CASE tool = "list_discussions" -> "failed to list discussions"
      [] tool = "get_discussion" -> "failed to get discussion"
      [] tool = "get_discussion_categories" -> "failed to get discussion categories"
      [] tool = "get_discussion_comments" -> "failed to get discussion comments"
      [] tool = "add_discussion_comment" -> "failed to create discussion comment"
      [] tool = "create_discussion" -> "failed to create discussion"

C16_OperationSpecificPrefix ==
    \A i \in InvIds :
        (Done(i) /\ Took(i, "readBody", TRUE))
        => /\ IsToolError(outcome[i])
           /\ outcome[i].result.prefix = C16_Prefix(Tool(i))
           /\ outcome[i].result.detail = resp[i].body
           /\ \A t \in Tools \ {Tool(i)} :
                /\ FailedMessage(t) # outcome[i].result.prefix
                /\ C16_Prefix(t) # outcome[i].result.prefix

\* a comment answered 200 is reported with the comment handler's prefix
C16_Witness ==
    /\ Done(1)
    /\ Tool(1) = "add_discussion_comment"
    /\ Took(1, "readBody", TRUE)
    /\ resp[1].status = StatusOK
    /\ resp[1].body # ""
    /\ outcome[1].result.prefix = "failed to create discussion comment"
    /\ outcome[1].result.detail = resp[1].body

(***************************************************************************)
(* What an invocation does when it runs alone: the call it sends and what  *)
(* it returns, from its own request, the outcome of its client             *)
(* acquisition, the return of its client call, and the outcomes of its     *)
(* body read and serialisation.                                            *)
(***************************************************************************)
SoloCall(req) == HandlerParams(req.tool, req.args).call

SoloOutcome(req, clientOk, r, readOk, marshalOk) ==
    LET p == HandlerParams(req.tool, req.args)
    IN  IF ~p.err.nil THEN ParamErrorReturn(p.err)
        ELSE IF ~clientOk THEN ClientErrorReturn
        ELSE IF r.err # "none" THEN UpstreamErrorReturn(req.tool, r.err)
        ELSE IF StatusRejected(req.tool, r.status)
        THEN IF readOk THEN StatusErrorReturn(req.tool, r.body) ELSE ReadErrorReturn
        ELSE IF marshalOk THEN SuccessReturn(Marshal(r.obj))
        ELSE MarshalErrorReturn(req.tool)

(***************************************************************************)
(* C17: handlers share no mutable state: in every interleaving of          *)
(* concurrently running invocations, the call an invocation builds and     *)
(* sends and the outcome it returns are those of a run alone with the same *)
(* request and the same upstream response, whatever the other invocation   *)
(* does.                                                                   *)
(***************************************************************************)
C17_NoInterference ==
    \A i \in InvIds :
        Started(i)
        => /\ call[i] = IF Took(i, "params", TRUE) THEN SoloCall(request[i]) ELSE NoCall
           /\ sent[i] = IF Reached(i, "call") THEN <<SoloCall(request[i])>> ELSE <<>>
           /\ ~Reached(i, "call") => resp[i] = NoReturn
           /\ ~Done(i) => outcome[i] = NotReturned
           /\ Done(i)
               => outcome[i] = SoloOutcome(request[i],
                                           ~Took(i, "getClient", FALSE),
                                           resp[i],
                                           ~Took(i, "readBody", FALSE),
                                           ~Took(i, "marshal", FALSE))

\* a comments listing has returned its payload while a create_discussion,
\* started before it ended, has its own call built and a 404 on its way
C17_Witness ==
    /\ Done(1)
    /\ Tool(1) = "get_discussion_comments"
    /\ IsSuccess(outcome[1])
    /\ sent[1][1].opts.page = 2
    /\ Tool(2) = "create_discussion"
    /\ pc[2] = "call"
    /\ call[2].method = "CreateDiscussion"
    /\ call[2] # call[1]

\* the primitive type a parameter is declared with
C18_Type(p) == IF p \in NumberParams THEN "number" ELSE "string"
C18_Mistyped(i) ==
    {p \in SchemaOptional("list_discussions") :
        Args(i)[p].k \notin {"absent", C18_Type(p)}}

(***************************************************************************)
(* C18: list_discussions with valid owner and repo: when one of direction, *)
(* category_id, pinned, page, perPage is present with the wrong primitive  *)
(* type, the result is the textual error "parameter is not of type" naming *)
(* such a parameter, with a nil Go error and no upstream call, the same    *)
(* error a mistyped required parameter gives; when every optional          *)
(* parameter is absent or of its type, validation passes.                  *)
(***************************************************************************)
C18_OptionalMistyped ==
    \A i \in InvIds :
        (/\ Done(i)
         /\ Tool(i) = "list_discussions"
         /\ GoodValue("owner", Args(i)["owner"])
         /\ GoodValue("repo", Args(i)["repo"]))
        => IF C18_Mistyped(i) # {}
           THEN /\ IsToolError(outcome[i])
                /\ outcome[i].result.detail \in C18_Mistyped(i)
                /\ outcome[i].result.prefix
                     = requiredParam([Args(i) EXCEPT !["owner"] = Num(7)], "owner").err.msg
                /\ outcome[i].result.prefix = "parameter is not of type: "
                /\ sent[i] = <<>>
                /\ ~Reached(i, "getClient")
           ELSE Took(i, "params", TRUE)

\* pinned given as a number, the parameters before it valid
C18_Witness ==
    /\ Done(1)
    /\ Tool(1) = "list_discussions"
    /\ GoodValue("owner", Args(1)["owner"])
    /\ GoodValue("repo", Args(1)["repo"])
    /\ Args(1)["pinned"].k = "number"
    /\ Args(1)["direction"].k = "absent"
    /\ Args(1)["category_id"].k = "string"
    /\ IsToolError(outcome[1])
    /\ outcome[1].result.detail = "pinned"

\* the order of validation: owner, repo, the operation's required
\* parameters in declaration order, the optional filters, pagination
C19_Declared(tool) ==
    CASE tool \in {"get_discussion", "get_discussion_comments"} -> <<"discussion_number">>
      [] tool = "add_discussion_comment" -> <<"discussion_number", "body">>
      [] tool = "create_discussion" -> <<"title", "body", "category_id">>
      [] OTHER -> <<>>
C19_Declares(tool, p) == p \in SchemaOptional(tool)
C19_Order(tool) ==
    LET Has(p) == C19_Declares(tool, p)
    IN  <<"owner", "repo">> \o C19_Declared(tool)
          \o SelectSeq(<<"direction", "category_id", "pinned">>, Has)
          \o SelectSeq(<<"page", "perPage">>, Has)
C19_Invalid(tool, args, p) ==
    IF p \in SchemaOptional(tool)
    THEN args[p].k \notin {"absent", C18_Type(p)}
    ELSE ~GoodValue(p, args[p])
\* the request with every parameter after the k-th of the order removed
C19_Upto(tool, args, k) ==
    [p \in ParamNames |->
        IF \E j \in 1..k : C19_Order(tool)[j] = p THEN args[p] ELSE Absent]

(***************************************************************************)
(* C19: parameters are validated in the order owner, repo, the             *)
(* operation's required parameters as declared, optional filters,          *)
(* pagination, stopping at the first failure: a failed validation reports  *)
(* the earliest invalid parameter of that order, the report is the one the *)
(* request gives with every later parameter removed, and a request with no *)
(* invalid parameter passes validation.                                    *)
(***************************************************************************)
C19_FirstFailureReported ==
    \A i \in InvIds :
        Reached(i, "params")
        => LET order == C19_Order(Tool(i))
               bad == {k \in 1..Len(order) : C19_Invalid(Tool(i), Args(i), order[k])}
           IN  IF bad = {}
               THEN Took(i, "params", TRUE)
               ELSE LET first == CHOOSE k \in bad : \A j \in bad : k <= j
                    IN  /\ Done(i)
                        /\ Took(i, "params", FALSE)
                        /\ IsToolError(outcome[i])
                        /\ outcome[i].result.detail = order[first]
                        /\ outcome[i]
                             = ParamErrorReturn(
                                   HandlerParams(Tool(i),
                                       C19_Upto(Tool(i), Args(i), first)).err)
                        /\ sent[i] = <<>>

\* create_discussion with both title and body invalid reports title
C19_Witness ==
    /\ Done(1)
    /\ Tool(1) = "create_discussion"
    /\ GoodValue("owner", Args(1)["owner"])
    /\ GoodValue("repo", Args(1)["repo"])
    /\ Args(1)["title"].k = "absent"
    /\ Args(1)["body"] = Str("")
    /\ Args(1)["category_id"].k = "number"
    /\ outcome[1].result.detail = "title"

(***************************************************************************)
(* C20: the client is acquired only after parameter validation has passed  *)
(* and before the upstream call: a request that fails validation returns   *)
(* the parameter error without any client acquisition, and a failed        *)
(* acquisition returns the hard error "failed to get GitHub client" with   *)
(* no upstream call.                                                       *)
(***************************************************************************)
C20_ClientAfterValidation ==
    \A i \in InvIds :
        /\ Reached(i, "getClient")
            => /\ Took(i, "params", TRUE)
               /\ log[i][1].step = "params"
               /\ log[i][2].step = "getClient"
        /\ Reached(i, "call")
            => /\ Took(i, "getClient", TRUE)
               /\ log[i][3].step = "call"
        /\ Took(i, "params", FALSE)
            => /\ Done(i)
               /\ Len(log[i]) = 1
               /\ IsToolError(outcome[i])
               /\ outcome[i] = ParamErrorReturn(HandlerParams(Tool(i), Args(i)).err)
               /\ sent[i] = <<>>
        /\ Took(i, "getClient", FALSE)
            => /\ Done(i)
               /\ Len(log[i]) = 2
               /\ IsHardError(outcome[i])
               /\ outcome[i].err.prefix = "failed to get GitHub client"
               /\ sent[i] = <<>>

\* a valid get_discussion whose client acquisition failed
C20_Witness ==
    /\ Done(1)
    /\ Tool(1) = "get_discussion"
    /\ Took(1, "params", TRUE)
    /\ Took(1, "getClient", FALSE)
    /\ IsHardError(outcome[1])

====
